---- MODULE Spec2Model ----
(***************************************************************************)
(* Model of the geodrillcalc wellbore design pipeline: the parameter store *)
(* (wellbore_data_store.py), the three-stage calculation pipeline          *)
(* (wellborecalc/wellborecalc_pipeline.py) and the functions the stages    *)
(* call (stage1_calc_screen.py, calc_pump.py, wellbore_param_calc.py,      *)
(* utils/calc_utils.py).                                                   *)
(*                                                                         *)
(* Units.  The code works in floating point; the model works in integers:  *)
(*   lengths and depths      millimetres                                   *)
(*   diameters               micrometres                                   *)
(*   flow per second         1e-6 m3/s (= 1e-3 L/s)                        *)
(*   logarithms              base 2, fixed point with FP = 2^12            *)
(* A value that may be absent or undefined is a record [k, v] with         *)
(* k = "num" (v is the number), "nan" (numpy NaN), "inf" (numpy inf) or    *)
(* "none" (Python None).                                                   *)
(***************************************************************************)
EXTENDS Integers, Sequences, FiniteSets, TLC

(* Values *)

Num(x) == [k |-> "num", v |-> x]
NaN == [k |-> "nan", v |-> 0]
Inf == [k |-> "inf", v |-> 0]
None == [k |-> "none", v |-> 0]
IsNum(a) == a.k = "num"
IsNaN(a) == a.k = "nan"

(* float comparison a > b: false as soon as one side is NaN *)
Gt(a, b) ==
    IF IsNaN(a) \/ IsNaN(b) THEN FALSE
    ELSE IF a.k = "inf" THEN b.k # "inf"
    ELSE IF b.k = "inf" THEN FALSE
    ELSE a.v > b.v

(* Python max(a, b): b if b > a else a *)
PyMax(a, b) == IF Gt(b, a) THEN b ELSE a

Abs(x) == IF x < 0 THEN 0 - x ELSE x

(* an operation's outcome: err = "none" and the value, or the exception raised *)
Ok(x) == [err |-> "none", v |-> x]
Raise(kind) == [err |-> kind, v |-> None]

(* NominalSizeLookup: utils/calc_utils.py *)

RECURSIVE SelectGT(_, _)
SelectGT(array, val) ==
    IF array = <<>> THEN <<>>
    ELSE IF Head(array) > val THEN <<Head(array)>> \o SelectGT(Tail(array), val)
    ELSE SelectGT(Tail(array), val)

RECURSIVE SelectGE(_, _)
SelectGE(array, val) ==
    IF array = <<>> THEN <<>>
    ELSE IF Head(array) >= val THEN <<Head(array)>> \o SelectGE(Tail(array), val)
    ELSE SelectGE(Tail(array), val)

(* ValidVals with the strict filter weakened: a candidate equal to val stays *)
ValidVals_KeepEqual(val, array, larger_than_or_equal_val, one_size_larger) ==
    IF larger_than_or_equal_val THEN SelectGE(array, val) ELSE array

(* array[array > val] if one_size_larger else array[array >= val] *)
ValidVals(val, array, larger_than_or_equal_val, one_size_larger) ==
    IF larger_than_or_equal_val
    THEN IF one_size_larger THEN SelectGT(array, val) ELSE SelectGE(array, val)
    ELSE array

(* np.argmin(np.abs(valid_vals - val)): the first index of the least distance *)
ArgminAbs(valid_vals, val) ==
    CHOOSE i \in 1..Len(valid_vals) :
        /\ \A j \in 1..Len(valid_vals) :
              Abs(valid_vals[i] - val) <= Abs(valid_vals[j] - val)
        /\ \A j \in 1..(i - 1) :
              Abs(valid_vals[j] - val) > Abs(valid_vals[i] - val)

(* find_nearest_value falling back to the largest size instead of raising *)
find_nearest_value_Fallback(val, array, larger_than_or_equal_val, one_size_larger) ==
    LET nearest(valid_vals) ==
            IF valid_vals = <<>>
            THEN IF array = <<>> THEN Ok(Num(val)) ELSE Ok(Num(array[Len(array)]))
            ELSE Ok(Num(valid_vals[ArgminAbs(valid_vals, val)]))
    IN  nearest(ValidVals(val, array, larger_than_or_equal_val, one_size_larger))

(* np.argmin of an empty selection raises ValueError *)
find_nearest_value(val, array, larger_than_or_equal_val, one_size_larger) ==
    LET nearest(valid_vals) ==
            IF valid_vals = <<>>
            THEN Raise("ValueError")
            ELSE Ok(Num(valid_vals[ArgminAbs(valid_vals, val)]))
    IN  nearest(ValidVals(val, array, larger_than_or_equal_val, one_size_larger))

find_next_largest_value(val, array) == find_nearest_value(val, array, TRUE, TRUE)

(* the same call on a float that may be NaN or inf: array > nan and *)
(* array > inf select nothing                                      *)
NextLargest(a, array) ==
    IF IsNum(a) THEN find_next_largest_value(a.v, array) ELSE Raise("ValueError")


(* Fixed-point arithmetic standing for the float operations of the code.    *)
(* Logarithms are base 2 with FP = 2^12 fractional steps; a mantissa is     *)
(* normalised to [MANT, 2*MANT).  Relative precision is about 5e-4, and the *)
(* inputs of the model are chosen so that no intermediate value lies that   *)
(* close to a catalogue size or to a threshold.                            *)

FP == 2^12
MANT == 2^14

RECURSIVE FloorLog2(_)
FloorLog2(n) == IF n < 2 THEN 0 ELSE 1 + FloorLog2(n \div 2)

RECURSIVE Log2Frac(_, _, _)
Log2Frac(m, k, fr) ==
    LET step(sq) ==
            IF sq >= 2 * MANT
            THEN Log2Frac(sq \div 2, k - 1, 2 * fr + 1)
            ELSE Log2Frac(sq, k - 1, 2 * fr)
    IN  IF k = 0 THEN fr ELSE step((m * m) \div MANT)

(* floor(log2(n) * FP), n >= 1 *)
Log2Fix(n) ==
    LET withExponent(e) ==
            e * FP + Log2Frac(IF e >= 14 THEN n \div (2^(e - 14)) ELSE n * 2^(14 - e),
                              12, 0)
    IN  withExponent(FloorLog2(n))

(* log2(a / b) * FP *)
LogRatio(a, b) == Log2Fix(a) - Log2Fix(b)

(* round(2^(2^-k) * MANT), k = 1..12 *)
ExpTable == <<23170, 19484, 17867, 17109, 16743, 16562,
              16473, 16428, 16406, 16395, 16390, 16387>>

RECURSIVE Exp2Mant(_, _, _)
Exp2Mant(f, k, m) ==
    IF k > 12 THEN m
    ELSE IF (f \div (2^(12 - k))) % 2 = 1
         THEN Exp2Mant(f, k + 1, (m * ExpTable[k]) \div MANT)
         ELSE Exp2Mant(f, k + 1, m)

(* floor(2^(x / FP)) *)
Exp2Fix(x) ==
    LET scaled(i, m) ==
            IF i >= 14 THEN m * 2^(i - 14)
            ELSE IF i < -16 THEN 0
            ELSE m \div (2^(14 - i))
    IN  scaled(x \div FP, Exp2Mant(x % FP, 1, MANT))

RECURSIVE IsqrtBetween(_, _, _)
IsqrtBetween(n, lo, hi) ==
    LET halve(mid) ==
            IF mid * mid <= n THEN IsqrtBetween(n, mid, hi)
            ELSE IsqrtBetween(n, lo, mid)
    IN  IF hi - lo <= 1 THEN lo ELSE halve((lo + hi) \div 2)

(* floor(sqrt(n)), n < 2^31 *)
Isqrt(n) == IsqrtBetween(n, 0, 46341)


(* Default catalogues: WellBoreDataStore._initialise_diameter_tables.  Sizes *)
(* in micrometres, smallest first.                                          *)

CasingMetres ==
    <<101600, 114300, 127000, 139700, 168275, 177800, 219075,
      244475, 273050, 339725, 473075, 508000, 609600, 762000>>

CasingRecommendedBit ==
    <<190500, 215900, 215900, 228600, 269875, 269875, 311150,
      349250, 381000, 444500, 609600, 609600, 711200, 914400>>

DrillingMetres ==
    <<190500, 215900, 228600, 241300, 269875, 295275, 311150,
      349250, 381000, 406400, 444500, 469900, 508000, 558800,
      609600, 660400, 711200, 762000, 812800, 863600, 914400>>

DrillingRecommendedScreen ==
    <<101600, 114300, 127000, 139700, 168275, 177800, 177800,
      244475, 273050, 273050, 339725, 339725, 339725, 339725,
      508000, 508000, 609600, 609600, 609600, 762000, 762000>>

(* ScreenSizingStage functions: wellborecalc/stage1_calc_screen.py *)

(* log2(2.25 / (bore_radius^2 * specific_storage)) * FP with the defaults *)
(* bore_radius = .0762 and specific_storage = 2e-4                         *)
LogTheisConst == 85548

(* 4*pi*drawdown*log2(10)*FP / (2.3*1000) with the default drawdown = 25: *)
(* FP-scaled log2 per (m3/day)/(m/day) to millimetres of screen           *)
TheisDivisor == 1859

(* the part per million by which TheisDivisor overstates the divisor *)
TheisCorrectionPpm == 246

(* SL = 2.3 Q / (4 pi K drawdown) * log10(2.25 K t / (r^2 Ss)), millimetres *)
TheisScreenLength(req_flow_rate, hyd_conductivity, bore_lifetime) ==
    LET corrected(y) == y + (y * TheisCorrectionPpm) \div 1000000
    IN  corrected(((req_flow_rate
                      * (LogTheisConst + Log2Fix(hyd_conductivity)
                           + Log2Fix(bore_lifetime)))
                     \div hyd_conductivity) \div TheisDivisor)

IntMin(a, b) == IF b < a THEN b ELSE a

(* doubled when is_injection_bore, capped at the thickness; the error band *)
(* is (0.9 SL, min(1.1 SL, thickness))                                     *)
calculate_minimum_screen_length(req_flow_rate, hyd_conductivity, bore_lifetime, thickness, is_injection_bore) ==
    LET withError(screen_length) ==
            [screen_length |-> screen_length,
             error |-> <<(screen_length * 9) \div 10,
                         IntMin((screen_length * 11) \div 10, thickness)>>]
        doubled(base) == IF is_injection_bore THEN base * 2 ELSE base
    IN  withError(IntMin(
            doubled(TheisScreenLength(req_flow_rate, hyd_conductivity, bore_lifetime)),
            thickness))

(* ohd_min = Q / (v * pi * porosity * ngr * SL), micrometres to 100 um.    *)
(* sand_face_velocity in 1e-4 m/s, reservoir_porosity in percent.  A zero  *)
(* screen length, a numpy scalar, divides to inf.                          *)
calculate_minimum_open_hole_diameter(req_flow_rate_sec, screen_length, sand_face_velocity, reservoir_porosity, ngr_aquifer) ==
    LET quotient(den) ==
            IF den = 0 THEN Inf
            ELSE Num(((req_flow_rate_sec * 3183) \div den) * 100)
    IN  quotient((sand_face_velocity * reservoir_porosity * ngr_aquifer * screen_length)
                     \div 1000)

(* log2 of 10.67 * Q^1.852 / C^1.852, Q in m3/s *)
LogHazenWilliams(req_flow_rate, pipe_roughness_coeff) ==
    LogRatio(1067, 100)
      + ((LogRatio(req_flow_rate, 1000000) - Log2Fix(pipe_roughness_coeff)) * 1852)
            \div 1000

(* hfpc = 10.67 L Q^1.852 / (C^1.852 D^4.8704), millimetres of head *)
calculate_casing_friction(depth_to_top_screen, req_flow_rate, casing_diameter, pipe_roughness_coeff) ==
    Exp2Fix(LogHazenWilliams(req_flow_rate, pipe_roughness_coeff)
              + LogRatio(depth_to_top_screen, 1000)
              - (LogRatio(casing_diameter, 1000000) * 48704) \div 10000
              + Log2Fix(1000))

(* d = (10.67 SL Q^1.852 / (2 C^1.852 (20 - hf)))^(1/4.8704), micrometres; *)
(* NaN where hf > 20 and where the base of the power is negative          *)
calculate_minimum_screen_diameter(up_hole_friction, screen_length, req_flow_rate, pipe_roughness_coeff) ==
    IF up_hole_friction > 20000 THEN NaN
    ELSE IF screen_length < 0 THEN NaN
    ELSE IF up_hole_friction = 20000 THEN Inf
    ELSE IF screen_length = 0 THEN Num(0)
    ELSE LET z == LogHazenWilliams(req_flow_rate, pipe_roughness_coeff)
                    + LogRatio(screen_length, 1000) - FP
                    - LogRatio(20000 - up_hole_friction, 1000)
         IN  Num(Exp2Fix((z * 10000) \div 48704 + Log2Fix(1000000)))

(* the metric with a casing as wide as the screen let through *)
calculate_total_casing_AllowEqual(prod_casing_diameter, screen_diameter, intermediate_casing, screen_length) ==
    IF ~IsNum(screen_diameter) THEN NaN
    ELSE IF prod_casing_diameter < screen_diameter.v THEN NaN
    ELSE Num((((((intermediate_casing \div 100) * (prod_casing_diameter \div 100)
                 + (screen_length \div 100) * (screen_diameter.v \div 100)) \div 1000)
               * 3142) \div 1000))

(* pi * (intermediate_casing * D + SL * sd) in 1e-2 m2; NaN if D <= sd or sd is NaN *)
calculate_total_casing(prod_casing_diameter, screen_diameter, intermediate_casing, screen_length) ==
    IF ~IsNum(screen_diameter) THEN NaN
    ELSE IF prod_casing_diameter <= screen_diameter.v THEN NaN
    ELSE Num((((((intermediate_casing \div 100) * (prod_casing_diameter \div 100)
                 + (screen_length \div 100) * (screen_diameter.v \div 100)) \div 1000)
               * 3142) \div 1000))


(* PumpSizingStage functions: wellborecalc/calc_pump.py *)

(* the classes with the thresholds counted into the class below *)
assign_pump_diameter_Closed(req_flow_rate_sec) ==
    IF req_flow_rate_sec < 0 THEN Raise("ValueError")
    ELSE Ok(Num(25400 * (IF req_flow_rate_sec <= 5000 THEN 4
                         ELSE IF req_flow_rate_sec <= 10000 THEN 6
                         ELSE IF req_flow_rate_sec <= 50000 THEN 8
                         ELSE IF req_flow_rate_sec <= 70000 THEN 10
                         ELSE 12)))

(* req_flow_rate_sec in 1e-3 L/s; the nominal size in inches times .0254 m *)
assign_pump_diameter(req_flow_rate_sec) ==
    IF req_flow_rate_sec < 0 THEN Raise("ValueError")
    ELSE Ok(Num(25400 * (IF req_flow_rate_sec < 5000 THEN 4
                         ELSE IF req_flow_rate_sec < 10000 THEN 6
                         ELSE IF req_flow_rate_sec < 50000 THEN 8
                         ELSE IF req_flow_rate_sec < 70000 THEN 10
                         ELSE 12)))

(* arguments in metres and years, the depth in millimetres *)
calculate_pump_inlet_depth(groundwater_depth, allowable_drawdown, safety_margin, long_term_decline_rate, bore_lifetime) ==
    (groundwater_depth + allowable_drawdown + safety_margin
        + long_term_decline_rate * bore_lifetime) * 1000

(* MPHD = sqrt(P^2 + 4 Q / (3.7 pi)), micrometres to 10 um *)
calculate_minimum_pump_housing_diameter(req_flow_rate_sec, pump_diameter) ==
    Isqrt((pump_diameter \div 10) * (pump_diameter \div 10)
            + req_flow_rate_sec * 3441 + (req_flow_rate_sec * 2) \div 10) * 10

(* CasingStagingStage functions: wellbore_param_calc.py *)

(* an array argument that may be None *)
Array(a) == [k |-> "array", v |-> a]

(* 6 * floor(1 + base * 11/6) for 10.9 < base <= 21.8, else 12 metres *)
calculate_pre_collar_depths(depth_to_aquifer_base) ==
    <<Num(0),
      Num(0 + (IF 10900 < depth_to_aquifer_base /\ depth_to_aquifer_base <= 21800
               THEN 6000 * (1 + (depth_to_aquifer_base * 11) \div 6000)
               ELSE 12000))>>

calculate_pre_collar_casing_diameter == 762000

is_superficial_casing_required(depth_to_aquifer_base) == depth_to_aquifer_base > 21800

calculate_superficial_casing_depths(is_required, depth_to_aquifer_base) ==
    IF is_required
    THEN <<Num(0), Num(0 + ((depth_to_aquifer_base + 5000) * 11) \div 10)>>
    ELSE <<NaN, NaN>>

(* find_next_largest_value(diameter, casing_diameter_data): comparing with *)
(* None raises TypeError                                                   *)
calculate_superficial_casing_diameter(is_required, diameter, casing_diameter_data) ==
    IF is_required
    THEN IF diameter.k = "none" \/ casing_diameter_data.k = "none"
         THEN Raise("TypeError")
         ELSE NextLargest(diameter, casing_diameter_data.v)
    ELSE Ok(NaN)

(* is_production_well and (mphd > diameter); a TypeError is caught and gives False *)
is_separate_pump_chamber_required(is_production_well, intermediate_casing_diameter, minimum_pump_housing_diameter) ==
    IF ~is_production_well THEN FALSE
    ELSE IF intermediate_casing_diameter.k = "none"
              \/ minimum_pump_housing_diameter.k = "none" THEN FALSE
    ELSE Gt(minimum_pump_housing_diameter, intermediate_casing_diameter)

calculate_pump_chamber_depths(is_pump_chamber_required, pump_inlet_depth) ==
    IF is_pump_chamber_required
    THEN IF pump_inlet_depth.k = "none" THEN Raise("ValueError")
         ELSE Ok(<<Num(0), Num(0 + pump_inlet_depth.v)>>)
    ELSE Ok(<<NaN, NaN>>)

calculate_pump_chamber_diameter(minimum_pump_housing_diameter, casing_diameter_data) ==
    NextLargest(minimum_pump_housing_diameter, casing_diameter_data)

(* the top defaults to 0 only when the argument is None; NaN is kept *)
calculate_intermediate_casing_depths(depth_to_top_screen, separate_pump_chamber_required, intermediate_casing_top) ==
    IF intermediate_casing_top.k = "none"
    THEN IF separate_pump_chamber_required THEN Raise("ValueError")
         ELSE Ok(<<Num(0), Num(depth_to_top_screen - 10000)>>)
    ELSE Ok(<<intermediate_casing_top, Num(depth_to_top_screen - 10000)>>)

(* max(find_next_largest_value(screen_diameter, catalogue), smallest production *)
(* casing diameter); the arguments are taken by the role the caller gives them  *)
calculate_intermediate_casing_diameter(screen_diameter, casing_diameter_data, smallest_production_casing_diameter) ==
    LET larger(nl) ==
            IF nl.err # "none" THEN nl
            ELSE IF smallest_production_casing_diameter.k = "none"
                 THEN Raise("TypeError")
            ELSE Ok(PyMax(nl.v, smallest_production_casing_diameter))
    IN  larger(NextLargest(screen_diameter, casing_diameter_data))

calculate_screen_riser_depths(depth_to_top_screen) ==
    <<Num(depth_to_top_screen - 20000), Num(depth_to_top_screen)>>

calculate_screen_riser_diameter(screen_diameter) == screen_diameter

(* Python round(): to the nearest metre, a tie to the even metre *)
Round(x) ==
    LET nearest(q, r) ==
            IF r > 500 \/ (r = 500 /\ q % 2 = 1) THEN (q + 1) * 1000 ELSE q * 1000
    IN  nearest(x \div 1000, x % 1000)

calculate_screen_depths(depth_to_top_screen, screen_length, aquifer_thickness) ==
    IF aquifer_thickness < screen_length THEN Raise("ValueError")
    ELSE Ok(<<Num(depth_to_top_screen), Num(Round(depth_to_top_screen + screen_length))>>)

(* the lookup falling back, for a miss, on the next larger catalogue row *)
calculate_drill_bit_diameter_NextRow(casing_stage_diameter, metres, recommended_bit) ==
    IF \E i \in 1..Len(metres) : metres[i] >= casing_stage_diameter
    THEN Num(recommended_bit[CHOOSE i \in 1..Len(metres) :
                 /\ metres[i] >= casing_stage_diameter
                 /\ \A j \in 1..(i - 1) : metres[j] < casing_stage_diameter])
    ELSE NaN

(* the recommended bit of the catalogue row whose metres equal the diameter, *)
(* NaN when there is none                                                    *)
calculate_drill_bit_diameter(casing_stage_diameter, metres, recommended_bit) ==
    IF \E i \in 1..Len(metres) : metres[i] = casing_stage_diameter
    THEN Num(recommended_bit[CHOOSE i \in 1..Len(metres) :
                 /\ metres[i] = casing_stage_diameter
                 /\ \A j \in 1..(i - 1) : metres[j] # casing_stage_diameter])
    ELSE NaN


(* WellBoreDataStore: wellbore_data_store.py *)

VARIABLES
    wbd,          \* the store: its input, derived and output attributes and flags
    cpl,          \* TRUE once a CalcPipeline has been constructed on the store
    cpl_err,      \* the exception the most recent CalcPipeline(...) raised, or "none"
    pc,           \* the position of calc_pipeline: "idle", "screen", "pump", "casing"
    init_err,     \* the exception the most recent initialisation raised, or "none"
    run,          \* the most recent run: the stages entered, the exception
                  \* raised inside a stage and the one the caller received
    lk,           \* the size lookup under test: arguments and outcome
    cost          \* what the cost parameter extraction returned, when it was
                  \* the most recent operation on the store

vars == <<wbd, cpl, cpl_err, pc, init_err, run, lk, cost>>

CasingStages ==
    <<"pre_collar", "superficial_casing", "pump_chamber_casing",
      "intermediate_casing", "screen_riser", "screen">>

NumericInputs ==
    {"required_flow_rate", "hydraulic_conductivity", "average_porosity",
     "bore_lifetime_year", "groundwater_depth", "long_term_decline_rate",
     "allowable_drawdown", "safety_margin"}

(* constants set by _assign_default_attributes: velocities in 1e-4 m/s, *)
(* porosity in percent                                                  *)
sand_face_velocity_production == 100
sand_face_velocity_injection == 30
net_to_gross_ratio_aquifer == 1
aquifer_average_porosity == 25
pipe_roughness_coeff == 100

(* six stages, every cell NaN *)
initialise_casing_stage_table ==
    [st \in {CasingStages[i] : i \in 1..Len(CasingStages)} |->
        [top |-> NaN, bottom |-> NaN, casing |-> NaN, drill_bit |-> NaN]]

(* WellBoreDataStore.__init__: every attribute None, the flags False; the *)
(* production-only attributes do not exist on an injection store and      *)
(* calculation_completed does not exist before the first run              *)
NewStore(is_production_well) ==
    [is_production_well |-> is_production_well,
     required_flow_rate |-> None, hydraulic_conductivity |-> None,
     average_porosity |-> None, bore_lifetime_year |-> None,
     groundwater_depth |-> None, long_term_decline_rate |-> None,
     allowable_drawdown |-> None, safety_margin |-> None,
     top_aquifer_layer |-> "None", target_aquifer_layer |-> "None",
     aquifer_layer_table |-> <<>>,
     depth_to_top_screen |-> None, required_flow_rate_per_litre_sec |-> None,
     required_flow_rate_per_m3_sec |-> None, bore_lifetime_per_day |-> None,
     aquifer_thickness |-> None, depth_to_aquifer_base |-> None,
     screen_length |-> None, screen_length_error |-> <<None, None>>,
     screen_diameter |-> None, open_hole_diameter |-> None,
     pump_inlet_depth |-> None, minimum_pump_housing_diameter |-> None,
     min_total_casing_production_screen_diameter |->
         IF is_production_well THEN None ELSE [k |-> "absent", v |-> 0],
     screen_stage_table |-> <<>>,
     casing_stage_table |-> initialise_casing_stage_table,
     ready_for_calculation |-> FALSE,
     calculation_completed |-> "absent"]

(* setattr for every argument that is not None *)
assign_initial_input_params(w, kw) ==
    LET keep(new, old) == IF new.k = "none" THEN old ELSE new
        keepName(new, old) == IF new = "None" THEN old ELSE new
    IN  [w EXCEPT
           !.required_flow_rate = keep(kw.required_flow_rate, @),
           !.hydraulic_conductivity = keep(kw.hydraulic_conductivity, @),
           !.average_porosity = keep(kw.average_porosity, @),
           !.bore_lifetime_year = keep(kw.bore_lifetime_year, @),
           !.groundwater_depth = keep(kw.groundwater_depth, @),
           !.long_term_decline_rate = keep(kw.long_term_decline_rate, @),
           !.allowable_drawdown = keep(kw.allowable_drawdown, @),
           !.safety_margin = keep(kw.safety_margin, @),
           !.top_aquifer_layer = keepName(kw.top_aquifer_layer, @),
           !.target_aquifer_layer = keepName(kw.target_aquifer_layer, @)]

(* Q / 86.4 L/s and Q / 86400 m3/s: the same number of 1e-3 L/s and of 1e-6 m3/s *)
FlowPerSecond(required_flow_rate) == (required_flow_rate * 10000) \div 864

(* aquifer_layer_table.index.get_loc(name); 0 when the name is not in the index *)
LayerIndex(table, name) ==
    IF \E i \in 1..Len(table) : table[i].aquifer_layer = name
    THEN CHOOSE i \in 1..Len(table) : table[i].aquifer_layer = name
    ELSE 0

validate_aquifer_layer(table, layer_name) == LayerIndex(table, layer_name) # 0

(* the check with the bottommost layer let through *)
validate_target_aquifer_layer_Bottom(table, target) ==
    LayerIndex(table, target) <= Len(table)

(* the bottommost layer is not allowed as the target *)
validate_target_aquifer_layer(table, target) == LayerIndex(table, target) < Len(table)

validate_top_aquifer_layer(top) == top \in {"100qa", "102utqa"}

(* every initial parameter present, the layer table not empty *)
validate_initial_inputs(w) ==
    /\ w.aquifer_layer_table # <<>>
    /\ w.required_flow_rate.k # "none" /\ w.hydraulic_conductivity.k # "none"
    /\ w.average_porosity.k # "none" /\ w.bore_lifetime_year.k # "none"
    /\ w.groundwater_depth.k # "none" /\ w.long_term_decline_rate.k # "none"
    /\ w.allowable_drawdown.k # "none" /\ w.safety_margin.k # "none"
    /\ w.top_aquifer_layer # "None" /\ w.target_aquifer_layer # "None"


(* _initialise_calculation_parameters: the store after the call and the     *)
(* exception it raised.  Every assignment made before the failing statement *)
(* stays; ready_for_calculation is only ever set, at the last statement.    *)
initialise_calculation_parameters(w, kw) ==
    LET finish(w6) ==
            IF ~validate_initial_inputs(w6) THEN [w |-> w6, err |-> "ValueError"]
            ELSE [w |-> [w6 EXCEPT !.ready_for_calculation = TRUE], err |-> "none"]
        top_depths(w5, table) ==
            IF ~validate_aquifer_layer(table, w5.top_aquifer_layer)
            THEN [w |-> w5, err |-> "ValueError"]
            ELSE IF ~validate_top_aquifer_layer(w5.top_aquifer_layer)
            THEN [w |-> w5, err |-> "ValueError"]
            ELSE finish([w5 EXCEPT
                           !.depth_to_aquifer_base =
                               Num(table[LayerIndex(table, w5.top_aquifer_layer)]
                                       .depth_to_base)])
        target_row(w4, table, target_index) ==
            IF target_index + 1 > Len(table)
            THEN [w |-> [w4 EXCEPT !.depth_to_top_screen =
                                       Num(table[target_index].depth_to_base)],
                  err |-> "IndexError"]
            ELSE top_depths(
                     [w4 EXCEPT
                        !.depth_to_top_screen = Num(table[target_index].depth_to_base),
                        !.aquifer_thickness =
                            Num(table[target_index + 1].depth_to_base
                                  - table[target_index].depth_to_base)],
                     table)
        target_depths(w4, table) ==
            IF ~validate_aquifer_layer(table, w4.target_aquifer_layer)
            THEN [w |-> w4, err |-> "ValueError"]
            ELSE IF ~validate_target_aquifer_layer(table, w4.target_aquifer_layer)
            THEN [w |-> w4, err |-> "ValueError"]
            ELSE target_row(w4, table, LayerIndex(table, w4.target_aquifer_layer))
        layer_table(w3) ==
            IF kw.aquifer_layer_table.k = "none" THEN [w |-> w3, err |-> "ValueError"]
            ELSE target_depths([w3 EXCEPT !.aquifer_layer_table = kw.aquifer_layer_table.v],
                               kw.aquifer_layer_table.v)
        lifetime(w2) ==
            IF w2.bore_lifetime_year.k = "none" THEN [w |-> w2, err |-> "TypeError"]
            ELSE layer_table([w2 EXCEPT
                                !.bore_lifetime_per_day =
                                    Num(w2.bore_lifetime_year.v * 365)])
        flow_rates(w1) ==
            IF w1.required_flow_rate.k = "none" THEN [w |-> w1, err |-> "TypeError"]
            ELSE lifetime([w1 EXCEPT
                             !.required_flow_rate_per_litre_sec =
                                 Num(FlowPerSecond(w1.required_flow_rate.v)),
                             !.required_flow_rate_per_m3_sec =
                                 Num(FlowPerSecond(w1.required_flow_rate.v))])
    IN  flow_rates(assign_initial_input_params(w, kw))

(* The inputs the model draws from.  Depths in millimetres. *)

Layer(name, depth) == [aquifer_layer |-> name, depth_to_base |-> depth]

(* the layer table of tests/test_calc.py with a shallow aquifer added *)
TableA ==
    <<Layer("100qa", 3000), Layer("103utqd", 53000),
      Layer("109lmta", 1000000), Layer("111lta", 1221000)>>

(* a deep top layer, a thin aquifer, and depths that do not increase downwards *)
TableB ==
    <<Layer("100qa", 30000), Layer("103utqd", 970000),
      Layer("109lmta", 1000000), Layer("111lta", 990000)>>

(* an array argument left out *)
NoArray == [k |-> "none", v |-> <<>>]

LayerTables == {Array(TableA), Array(TableB)}

FlowRates == {4320}
TargetLayers == {"103utqd", "109lmta", "111lta"}
TopLayers == {"100qa", "103utqd"}

(* the arguments a call may leave out *)
Omissible ==
    {"nothing", "required_flow_rate", "hydraulic_conductivity", "average_porosity",
     "bore_lifetime_year", "groundwater_depth", "long_term_decline_rate",
     "allowable_drawdown", "safety_margin", "top_aquifer_layer",
     "target_aquifer_layer"}

Kwargs(q, table, target, top, omitted) ==
    LET arg(name, value) == IF omitted = name THEN None ELSE Num(value)
    IN  [required_flow_rate |-> arg("required_flow_rate", q),
         hydraulic_conductivity |-> arg("hydraulic_conductivity", 5),
         average_porosity |-> arg("average_porosity", 25),
         bore_lifetime_year |-> arg("bore_lifetime_year", 30),
         groundwater_depth |-> arg("groundwater_depth", 25),
         long_term_decline_rate |-> arg("long_term_decline_rate", 1),
         allowable_drawdown |-> arg("allowable_drawdown", 25),
         safety_margin |-> arg("safety_margin", 25),
         top_aquifer_layer |-> IF omitted = "top_aquifer_layer" THEN "None" ELSE top,
         target_aquifer_layer |->
             IF omitted = "target_aquifer_layer" THEN "None" ELSE target,
         aquifer_layer_table |-> table]

NoLookup == [op |-> "none", val |-> 0, array |-> <<>>, out |-> Ok(None)]

NoRun == [stages |-> <<>>, cause |-> "none", raised |-> "none"]

(* no cost parameter extraction has returned since the last store operation *)
NoCost == [done |-> FALSE, err |-> "none", materials_params |-> <<>>]

Init ==
    /\ \E is_production_well \in BOOLEAN : wbd = NewStore(is_production_well)
    /\ cpl = FALSE
    /\ cpl_err = "none"
    /\ pc = "idle"
    /\ init_err = "none"
    /\ run = NoRun
    /\ cost = NoCost
    /\ lk = NoLookup

(* GeoDrillCalc._initialise -> WellBoreDataStore._initialise_calculation_parameters *)
Initialise ==
    /\ pc = "idle"
    /\ \E q \in FlowRates, table \in LayerTables, target \in TargetLayers,
          top \in TopLayers, omitted \in Omissible :
          \E r \in {initialise_calculation_parameters(
                        wbd, Kwargs(q, table, target, top, omitted))} :
              /\ wbd' = r.w
              /\ init_err' = r.err
    /\ UNCHANGED <<cpl, cpl_err, pc, run, lk>>
    /\ cost' = NoCost

(* CalcPipeline.__init__: on a store that is not ready the raise statement *)
(* formats its message with self.__name__, which an instance does not     *)
(* have, so the AttributeError of that lookup is what leaves __init__     *)
CalcPipeline_init(w) ==
    IF ~w.ready_for_calculation THEN "AttributeError" ELSE "none"

(* cpl = CalcPipeline(wbd): no object is bound when __init__ raises *)
Construct ==
    /\ pc = "idle"
    /\ cpl_err' = CalcPipeline_init(wbd)
    /\ cpl' = IF CalcPipeline_init(wbd) = "none" THEN TRUE ELSE cpl
    /\ UNCHANGED <<wbd, pc, init_err, run, lk>>
    /\ cost' = NoCost


(* CalcPipeline: wellborecalc/wellborecalc_pipeline.py *)

(* the store with the results of a stage written to the attributes of the *)
(* same names                                                              *)
assign_input_params(w, results) ==
    [name \in DOMAIN w |-> IF name \in DOMAIN results THEN results[name] ELSE w[name]]

(* one row of the screen stage table for the production casing diameter D *)
ScreenStageRow(w, screen_length, D) ==
    LET row(hf, d, sd) ==
            [production_casing_diameters |-> D,
             production_casing_frictions |-> hf,
             production_minimum_screen_diameters |-> d,
             production_screen_diameters |-> sd.v,
             err |-> sd.err,
             total_casing |->
                 IF sd.err # "none" THEN NaN
                 ELSE calculate_total_casing(D, sd.v, w.depth_to_top_screen.v - 10000,
                                             screen_length)]
        screen_diameter(hf, d) ==
            row(hf, d, IF IsNaN(d) THEN Ok(NaN) ELSE NextLargest(d, CasingMetres))
        minimum_screen_diameter(hf) ==
            screen_diameter(hf,
                calculate_minimum_screen_diameter(hf, screen_length,
                                                  w.required_flow_rate_per_m3_sec.v,
                                                  pipe_roughness_coeff))
    IN  minimum_screen_diameter(
            calculate_casing_friction(w.depth_to_top_screen.v,
                                      w.required_flow_rate_per_m3_sec.v,
                                      D, pipe_roughness_coeff))

(* argmin without skipna: a NaN anywhere in the column is the answer *)
ArgminSkipna_KeepNaN(rows) ==
    IF \A i \in 1..Len(rows) : ~IsNum(rows[i].total_casing) THEN 0
    ELSE CHOOSE i \in 1..Len(rows) :
            \/ /\ ~IsNum(rows[i].total_casing)
               /\ \A j \in 1..(i - 1) : IsNum(rows[j].total_casing)
            \/ /\ \A j \in 1..Len(rows) : IsNum(rows[j].total_casing)
               /\ \A j \in 1..Len(rows) :
                     /\ rows[i].total_casing.v <= rows[j].total_casing.v
                     /\ (j < i => rows[j].total_casing.v > rows[i].total_casing.v)

(* Series.argmin(skipna=True): the first position of the least value that *)
(* is not NaN; 0 when every value is NaN                                  *)
ArgminSkipna(rows) ==
    IF \A i \in 1..Len(rows) : ~IsNum(rows[i].total_casing) THEN 0
    ELSE CHOOSE i \in 1..Len(rows) :
            /\ IsNum(rows[i].total_casing)
            /\ \A j \in 1..Len(rows) :
                  IsNum(rows[j].total_casing) =>
                      /\ rows[i].total_casing.v <= rows[j].total_casing.v
                      /\ (j < i => rows[j].total_casing.v > rows[i].total_casing.v)

(* _screen_pipeline: the store after the stage and the exception it raised. *)
(* all_nan_raises: on a column of NaN only, argmin either raises ValueError *)
(* or returns -1, which iloc reads as the last row, by the pandas release.  *)
screen_pipeline(w, all_nan_raises) ==
    LET written(sl, open_hole_diameter, screen_df, min_total) ==
            assign_input_params(
                [w EXCEPT !.screen_stage_table =
                    [i \in 1..Len(screen_df) |->
                        [production_casing_diameters |->
                             screen_df[i].production_casing_diameters,
                         production_casing_frictions |->
                             screen_df[i].production_casing_frictions,
                         production_minimum_screen_diameters |->
                             screen_df[i].production_minimum_screen_diameters,
                         production_screen_diameters |->
                             screen_df[i].production_screen_diameters,
                         total_casing |-> screen_df[i].total_casing]]],
                [screen_length |-> Num(sl.screen_length),
                 screen_length_error |-> <<Num(sl.error[1]), Num(sl.error[2])>>,
                 open_hole_diameter |-> open_hole_diameter.v,
                 min_total_casing_production_screen_diameter |-> min_total,
                 screen_diameter |-> PyMax(min_total, Num(CasingMetres[1]))])
        selected(sl, open_hole_diameter, screen_df, pos) ==
            IF open_hole_diameter.err # "none"
            THEN [w |-> w, err |-> open_hole_diameter.err]
            ELSE IF ~w.is_production_well
            THEN [w |-> w, err |-> "KeyError"]
            ELSE IF \E i \in 1..Len(screen_df) : screen_df[i].err # "none"
            THEN [w |-> w, err |-> "ValueError"]
            ELSE IF pos = 0 /\ all_nan_raises
            THEN [w |-> w, err |-> "ValueError"]
            ELSE [w |-> written(sl, open_hole_diameter, screen_df,
                                screen_df[IF pos = 0 THEN Len(screen_df) ELSE pos]
                                    .production_screen_diameters),
                  err |-> "none"]
        tabulated(sl, open_hole_diameter, screen_df) ==
            selected(sl, open_hole_diameter, screen_df, ArgminSkipna(screen_df))
        open_hole(sl, ohd_min) ==
            tabulated(sl, NextLargest(ohd_min, DrillingMetres),
                      [i \in 1..Len(CasingMetres) |->
                          ScreenStageRow(w, sl.screen_length, CasingMetres[i])])
        screen_length(sl) ==
            open_hole(sl,
                calculate_minimum_open_hole_diameter(
                    w.required_flow_rate_per_m3_sec.v, sl.screen_length,
                    IF w.is_production_well THEN sand_face_velocity_production
                    ELSE sand_face_velocity_injection,
                    aquifer_average_porosity, net_to_gross_ratio_aquifer))
    IN  screen_length(
            calculate_minimum_screen_length(w.required_flow_rate.v,
                                            w.hydraulic_conductivity.v,
                                            w.bore_lifetime_per_day.v,
                                            w.aquifer_thickness.v,
                                            w.is_production_well))

(* _pump_pipeline with the inlet depth stored under the name of an input *)
pump_pipeline_InputKey(w) ==
    LET housing(pump_inlet_depth, pump_diameter) ==
            IF pump_diameter.err # "none" THEN [w |-> w, err |-> pump_diameter.err]
            ELSE [w |-> assign_input_params(w,
                           [groundwater_depth |-> Num(pump_inlet_depth),
                            minimum_pump_housing_diameter |->
                                Num(calculate_minimum_pump_housing_diameter(
                                        w.required_flow_rate_per_m3_sec.v,
                                        pump_diameter.v.v))]),
                  err |-> "none"]
    IN  housing(calculate_pump_inlet_depth(w.groundwater_depth.v, w.allowable_drawdown.v,
                                           w.safety_margin.v, w.long_term_decline_rate.v,
                                           w.bore_lifetime_year.v),
                assign_pump_diameter(w.required_flow_rate_per_litre_sec.v))

(* _pump_pipeline *)
pump_pipeline(w) ==
    LET housing(pump_inlet_depth, pump_diameter) ==
            IF pump_diameter.err # "none" THEN [w |-> w, err |-> pump_diameter.err]
            ELSE [w |-> assign_input_params(w,
                           [pump_inlet_depth |-> Num(pump_inlet_depth),
                            minimum_pump_housing_diameter |->
                                Num(calculate_minimum_pump_housing_diameter(
                                        w.required_flow_rate_per_m3_sec.v,
                                        pump_diameter.v.v))]),
                  err |-> "none"]
    IN  housing(calculate_pump_inlet_depth(w.groundwater_depth.v, w.allowable_drawdown.v,
                                           w.safety_margin.v, w.long_term_decline_rate.v,
                                           w.bore_lifetime_year.v),
                assign_pump_diameter(w.required_flow_rate_per_litre_sec.v))

Row(depths, casing) == [top |-> depths[1], bottom |-> depths[2], casing |-> casing]

(* the drill bit of a row: looked up unless the casing diameter is NaN *)
WithDrillBit(row) ==
    [top |-> row.top, bottom |-> row.bottom, casing |-> row.casing,
     drill_bit |-> IF IsNum(row.casing)
                   THEN calculate_drill_bit_diameter(row.casing.v, CasingMetres,
                                                     CasingRecommendedBit)
                   ELSE row.casing]

(* the stage working on the store's own table: the rows written before the *)
(* exception stay                                                          *)
abandon_copy_InPlace(w, copy, kind) ==
    [w |-> [w EXCEPT !.casing_stage_table =
               [st \in DOMAIN copy |->
                   [top |-> copy[st].top, bottom |-> copy[st].bottom,
                    casing |-> copy[st].casing,
                    drill_bit |-> w.casing_stage_table[st].drill_bit]]],
     err |-> kind]

(* an exception leaves _casing_pipeline before the setattr of its last line: *)
(* the copy is dropped and the store keeps its table                         *)
abandon_copy(w, copy, kind) == [w |-> w, err |-> kind]

(* _casing_pipeline: works on a copy of the store's table without the      *)
(* drill_bit column and replaces the store's table at the very end.        *)
casing_pipeline(w) ==
    LET fail(copy, kind) == abandon_copy(w, copy, kind)
        drill_bits(t6) ==
            [w |-> [w EXCEPT !.casing_stage_table =
                       [st \in DOMAIN t6 |-> WithDrillBit(t6[st])]],
             err |-> "none"]
        screen(t5, screen_depths) ==
            IF screen_depths.err # "none" THEN fail(t5, screen_depths.err)
            ELSE drill_bits([t5 EXCEPT !["screen"] =
                                Row(screen_depths.v, w.screen_diameter)])
        screen_riser(t4) ==
            screen([t4 EXCEPT !["screen_riser"] =
                       Row(calculate_screen_riser_depths(w.depth_to_top_screen.v),
                           calculate_screen_riser_diameter(w.screen_diameter))],
                   calculate_screen_depths(w.depth_to_top_screen.v, w.screen_length.v,
                                           w.aquifer_thickness.v))
        intermediate_diameter(t3, intermediate_depths, diameter) ==
            IF diameter.err # "none" THEN fail(t3, diameter.err)
            ELSE screen_riser([t3 EXCEPT !["intermediate_casing"] =
                                  Row(intermediate_depths.v, diameter.v)])
        intermediate_depths(t3, depths) ==
            IF depths.err # "none" THEN fail(t3, depths.err)
            ELSE IF w.min_total_casing_production_screen_diameter.k = "absent"
            THEN fail(t3, "AttributeError")
            ELSE intermediate_diameter(t3, depths,
                     calculate_intermediate_casing_diameter(
                         w.screen_diameter, CasingMetres,
                         w.min_total_casing_production_screen_diameter))
        intermediate(t3, separate_pump_chamber_required) ==
            intermediate_depths(t3,
                calculate_intermediate_casing_depths(w.depth_to_top_screen.v,
                                                     separate_pump_chamber_required,
                                                     t3["pump_chamber_casing"].bottom))
        pump_chamber_row(t2, pump_chamber_depths, pump_chamber_diameter) ==
            IF pump_chamber_depths.err # "none" THEN fail(t2, pump_chamber_depths.err)
            ELSE IF pump_chamber_diameter.err # "none"
            THEN fail(t2, pump_chamber_diameter.err)
            ELSE intermediate([t2 EXCEPT !["pump_chamber_casing"] =
                                  Row(pump_chamber_depths.v, pump_chamber_diameter.v)],
                              TRUE)
        pump_chamber(t2, separate_pump_chamber_required) ==
            IF separate_pump_chamber_required
            THEN pump_chamber_row(t2,
                     calculate_pump_chamber_depths(separate_pump_chamber_required,
                                                   w.pump_inlet_depth),
                     calculate_pump_chamber_diameter(w.minimum_pump_housing_diameter,
                                                     CasingMetres))
            ELSE intermediate(t2, FALSE)
        superficial_row(t1, superficial_diameter) ==
            IF superficial_diameter.err # "none" THEN fail(t1, superficial_diameter.err)
            ELSE pump_chamber(
                     [t1 EXCEPT !["superficial_casing"] =
                         Row(calculate_superficial_casing_depths(
                                 TRUE, w.depth_to_aquifer_base.v),
                             superficial_diameter.v)],
                     is_separate_pump_chamber_required(w.is_production_well,
                                                       w.screen_diameter,
                                                       w.minimum_pump_housing_diameter))
        superficial(t1, superficial_casing_required) ==
            IF superficial_casing_required
            THEN superficial_row(t1,
                     calculate_superficial_casing_diameter(superficial_casing_required,
                                                           None, NoArray))
            ELSE pump_chamber(t1,
                     is_separate_pump_chamber_required(w.is_production_well,
                                                       w.screen_diameter,
                                                       w.minimum_pump_housing_diameter))
        pre_collar(copy) ==
            superficial([copy EXCEPT !["pre_collar"] =
                            Row(calculate_pre_collar_depths(w.depth_to_aquifer_base.v),
                                Num(calculate_pre_collar_casing_diameter))],
                        is_superficial_casing_required(w.depth_to_aquifer_base.v))
    IN  pre_collar([st \in DOMAIN w.casing_stage_table |->
                       [top |-> w.casing_stage_table[st].top,
                        bottom |-> w.casing_stage_table[st].bottom,
                        casing |-> w.casing_stage_table[st].casing]])

(* the except clauses of calc_pipeline: ValueError and ZeroDivisionError *)
(* are re-raised as ValueError, any other exception passes unchanged     *)
Surfaced(kind) ==
    IF kind \in {"ValueError", "ZeroDivisionError"} THEN "ValueError" ELSE kind

(* the stage calc_pipeline enters after a stage continuing past a failure *)
NextStage_Continue(stage, err) ==
    IF stage = "screen" THEN "pump"
    ELSE IF stage = "pump" THEN "casing"
    ELSE "idle"

(* the stage calc_pipeline enters after a stage: an exception leaves the try *)
NextStage(stage, err) ==
    IF err # "none" THEN "idle"
    ELSE IF stage = "screen" THEN "pump"
    ELSE IF stage = "pump" THEN "casing"
    ELSE "idle"

(* calculation_completed set as soon as any stage has succeeded *)
CompletedAfter_Early(flag, stage, err) ==
    IF err = "none" THEN "True" ELSE flag

(* calculation_completed after a stage: set once the casing stage has returned *)
CompletedAfter(flag, stage, err) ==
    IF stage = "casing" /\ err = "none" THEN "True" ELSE flag

(* the attributes the screen and the pump stage write *)
ScreenOutputs(w) ==
    <<w.screen_length, w.screen_length_error, w.open_hole_diameter, w.screen_diameter>>

PumpOutputs(w) == <<w.pump_inlet_depth, w.minimum_pump_housing_diameter>>

(* the outcome of a stage with a failure clearing what the run had written *)
StageDone_Rollback(stage, r) ==
    /\ wbd' = IF r.err # "none"
              THEN [r.w EXCEPT !.screen_length = None,
                               !.screen_length_error = <<None, None>>,
                               !.open_hole_diameter = None,
                               !.screen_diameter = None,
                               !.pump_inlet_depth = None,
                               !.minimum_pump_housing_diameter = None]
              ELSE [r.w EXCEPT !.calculation_completed = CompletedAfter(@, stage, r.err)]
    /\ pc' = NextStage(stage, r.err)
    /\ run' = [stages |-> Append(run.stages, stage),
               cause |-> r.err,
               raised |-> Surfaced(r.err)]
    /\ UNCHANGED <<cpl, cpl_err, init_err, lk>>
    /\ cost' = NoCost

(* the outcome of a stage as calc_pipeline leaves it: the stage's writes, *)
(* the flag, the next position and the exception the caller receives     *)
StageDone(stage, r) ==
    /\ wbd' = [r.w EXCEPT !.calculation_completed = CompletedAfter(@, stage, r.err)]
    /\ pc' = NextStage(stage, r.err)
    /\ run' = [stages |-> Append(run.stages, stage),
               cause |-> r.err,
               raised |-> Surfaced(r.err)]
    /\ UNCHANGED <<cpl, cpl_err, init_err, lk>>
    /\ cost' = NoCost

(* calc_pipeline entered: the flag is cleared before the first stage *)
StartRun ==
    /\ pc = "idle"
    /\ cpl
    /\ wbd' = [wbd EXCEPT !.calculation_completed = "False"]
    /\ pc' = "screen"
    /\ run' = NoRun
    /\ UNCHANGED <<cpl, cpl_err, init_err, lk>>
    /\ cost' = NoCost

ScreenStage ==
    /\ pc = "screen"
    /\ \E all_nan_raises \in BOOLEAN :
          StageDone("screen", screen_pipeline(wbd, all_nan_raises))

PumpStage ==
    /\ pc = "pump"
    /\ StageDone("pump", pump_pipeline(wbd))

CasingStage ==
    /\ pc = "casing"
    /\ StageDone("casing", casing_pipeline(wbd))

(* CostParameterExtractor: wellborecost/cost_parameter_extractor.py.  A      *)
(* pandas Series is a function from stage names to values, the empty Series *)
(* the empty function; lengths in mm, radii in mm, volumes in 1e-6 m3.       *)
EmptySeries == <<>>

(* floor(a * b / c) for c > 0 without leaving the 32-bit range *)
MulDiv(a, b, c) == a * (b \div c) + (a * (b % c)) \div c

(* pi * x, pi taken as 355/113 *)
TimesPi(x) == MulDiv(355, x, 113)

(* float addition; None + anything raises TypeError *)
Add(a, b) ==
    IF a.k = "none" \/ b.k = "none" THEN Raise("TypeError")
    ELSE IF IsNum(a) /\ IsNum(b) THEN Ok(Num(a.v + b.v))
    ELSE IF IsNaN(a) \/ IsNaN(b) THEN Ok(NaN)
    ELSE Ok(Inf)

(* Series.sum(): NaN entries are skipped, the empty Series sums to 0 *)
SeriesSumFrom(series, labels, i) ==
    LET RECURSIVE acc(_)
        acc(j) == IF j > Len(labels) THEN 0
                  ELSE (IF labels[j] \in DOMAIN series /\ IsNum(series[labels[j]])
                        THEN series[labels[j]].v ELSE 0) + acc(j + 1)
    IN  acc(i)

SeriesSum(series, labels) == Num(SeriesSumFrom(series, labels, 1))

total_well_depth(w) == Add(w.depth_to_top_screen, w.screen_length)

(* the subtraction without the fillna(0) that follows it *)
section_length_KeepNaN(row) ==
    IF IsNaN(row.top) /\ IsNaN(row.bottom) THEN NaN
    ELSE Num((IF IsNum(row.bottom) THEN row.bottom.v ELSE 0)
             - (IF IsNum(row.top) THEN row.top.v ELSE 0))

(* bottom.subtract(top, fill_value=0).fillna(0): a NaN on one side counts *)
(* as 0, NaN on both sides gives NaN, which fillna turns into 0           *)
section_length(row) ==
    IF IsNaN(row.top) /\ IsNaN(row.bottom) THEN Num(0)
    ELSE Num((IF IsNum(row.bottom) THEN row.bottom.v ELSE 0)
             - (IF IsNum(row.top) THEN row.top.v ELSE 0))

section_lengths(w) ==
    [st \in DOMAIN w.casing_stage_table |-> section_length(w.casing_stage_table[st])]

get_section_diameters(w, outer) ==
    [st \in DOMAIN w.casing_stage_table |->
        IF outer THEN w.casing_stage_table[st].drill_bit
        ELSE w.casing_stage_table[st].casing]

(* (diameter / 2) ** 2 in mm2 *)
RadiusSquared(diameter) == (diameter \div 2000) * (diameter \div 2000)

(* np.pi * radii**2 * lengths: NaN where the diameter is NaN, even for a *)
(* length of 0                                                           *)
section_excavation_volumes(w) ==
    LET volume(length, diameter) ==
            IF IsNum(length) /\ IsNum(diameter)
            THEN Num(TimesPi(MulDiv(RadiusSquared(diameter.v), length.v, 1000)))
            ELSE NaN
    IN  [st \in DOMAIN w.casing_stage_table |->
            volume(section_length(w.casing_stage_table[st]),
                   w.casing_stage_table[st].drill_bit)]

(* np.pi * (outer_radii**2 - inner_radii**2) * lengths; a negative entry *)
(* raises ValueError, which the property catches and answers with the    *)
(* empty Series                                                          *)
section_annular_volumes(w) ==
    LET volume(length, outer, inner) ==
            IF IsNum(length) /\ IsNum(outer) /\ IsNum(inner)
            THEN Num(TimesPi(MulDiv(RadiusSquared(outer.v) - RadiusSquared(inner.v),
                                    length.v, 1000)))
            ELSE NaN
        checked(volumes) ==
            IF \E st \in DOMAIN volumes : IsNum(volumes[st]) /\ volumes[st].v < 0
            THEN EmptySeries
            ELSE volumes
    IN  checked([st \in DOMAIN w.casing_stage_table |->
                    volume(section_length(w.casing_stage_table[st]),
                           w.casing_stage_table[st].drill_bit,
                           w.casing_stage_table[st].casing)])

(* the stages that are cemented: every stage but the screen riser and the screen *)
CementedStages == SubSeq(CasingStages, 1, 4)

total_cement_volume(w) == SeriesSum(section_annular_volumes(w), CementedStages)

(* Series.get('screen', 0) *)
total_gravel_volume(w) ==
    LET get(volumes) == IF "screen" \in DOMAIN volumes THEN volumes["screen"] ELSE Num(0)
    IN  get(section_annular_volumes(w))

(* the distinct casing diameters of the rows whose top is neither 0 nor NaN *)
operational_section_count(w) ==
    Cardinality({w.casing_stage_table[st].casing.v :
                    st \in {x \in DOMAIN w.casing_stage_table :
                               /\ IsNum(w.casing_stage_table[x].top)
                               /\ w.casing_stage_table[x].top.v # 0
                               /\ IsNum(w.casing_stage_table[x].casing)}})

(* WellboreCostCalculator.calculate_material_costs: section_excavation_volumes.sum() *)
total_excavation_volume(section_volumes) == SeriesSum(section_volumes, CasingStages)

(* CostParameterExtractor.materials_params; the well depth is evaluated *)
(* first and its TypeError is not caught                                *)
materials_params(w) ==
    LET params(depth) ==
            IF depth.err # "none"
            THEN [done |-> TRUE, err |-> depth.err, materials_params |-> <<>>]
            ELSE [done |-> TRUE, err |-> "none",
                  materials_params |->
                      [total_well_depth |-> depth.v,
                       section_lengths |-> section_lengths(w),
                       section_diameters |-> get_section_diameters(w, TRUE),
                       section_excavation_volumes |-> section_excavation_volumes(w),
                       total_excavation_volume |->
                           total_excavation_volume(section_excavation_volumes(w)),
                       total_gravel_volume |-> total_gravel_volume(w),
                       total_cement_volume |-> total_cement_volume(w),
                       operational_section_count |-> operational_section_count(w)]]
    IN  params(total_well_depth(w))

(* CostCalculationPipeline.wellbore_params on the store as it stands; the *)
(* extraction reads the store and writes nothing to it                   *)
ExtractCostParameters ==
    /\ pc = "idle"
    /\ cost' = materials_params(wbd)
    /\ UNCHANGED <<wbd, cpl, cpl_err, pc, init_err, run, lk>>


Next ==
    \/ Initialise
    \/ Construct
    \/ StartRun
    \/ ScreenStage
    \/ PumpStage
    \/ CasingStage
    \/ ExtractCostParameters

Spec == Init /\ [][Next]_vars


(* The size lookups on their own: every ascending candidate array of at most *)
(* MaxLen sizes out of 1..MaxSize, and every value from 0 to MaxSize + 1.    *)

MaxSize == 4
MaxLen == 3

RECURSIVE Ascending(_)
Ascending(S) ==
    LET from(least) == <<least>> \o Ascending(S \ {least})
    IN  IF S = {} THEN <<>> ELSE from(CHOOSE x \in S : \A y \in S : x <= y)

CandidateArrays ==
    {Ascending(S) : S \in {T \in SUBSET (1..MaxSize) : Cardinality(T) <= MaxLen}}

InitLookup ==
    /\ wbd = NewStore(TRUE)
    /\ cpl = FALSE
    /\ cpl_err = "none"
    /\ pc = "idle"
    /\ init_err = "none"
    /\ run = NoRun
    /\ cost = NoCost
    /\ \E val \in 0..(MaxSize + 1), array \in CandidateArrays :
          lk = [op |-> "none", val |-> val, array |-> array, out |-> Ok(None)]

LookupNextLargest ==
    /\ lk.op = "none"
    /\ lk' = [lk EXCEPT !.op = "next_largest",
                        !.out = find_next_largest_value(lk.val, lk.array)]
    /\ UNCHANGED <<wbd, cpl, cpl_err, pc, init_err, run, cost>>

LookupNearestAtLeast ==
    /\ lk.op = "none"
    /\ lk' = [lk EXCEPT !.op = "nearest_at_least",
                        !.out = find_nearest_value(lk.val, lk.array, TRUE, FALSE)]
    /\ UNCHANGED <<wbd, cpl, cpl_err, pc, init_err, run, cost>>

LookupNearest ==
    /\ lk.op = "none"
    /\ lk' = [lk EXCEPT !.op = "nearest",
                        !.out = find_nearest_value(lk.val, lk.array, FALSE, FALSE)]
    /\ UNCHANGED <<wbd, cpl, cpl_err, pc, init_err, run, cost>>

NextLookup ==
    \/ LookupNextLargest
    \/ LookupNearestAtLeast
    \/ LookupNearest

SpecLookup == InitLookup /\ [][NextLookup]_vars

Candidates == {lk.array[i] : i \in 1..Len(lk.array)}

(* The catalogue lookups on their own: a catalogue of the store and a     *)
(* diameter, then one exact-match lookup.                                  *)

Catalogues == {"casing", "drilling"}

Metres(catalogue) == IF catalogue = "casing" THEN CasingMetres ELSE DrillingMetres

Recommended(catalogue) ==
    IF catalogue = "casing" THEN CasingRecommendedBit ELSE DrillingRecommendedScreen

(* the frame rows whose metres equal val, in row order *)
MatchingRows(val, metres) == {i \in 1..Len(metres) : metres[i] = val}

(* the first matching row, whatever follows it *)
FirstRow(rows) == CHOOSE i \in rows : \A j \in rows : i <= j

(* the lookup taking the first row larger than the value *)
query_diameter_table_Larger(val, metres, recommended) ==
    IF \E i \in 1..Len(metres) : metres[i] > val
    THEN Ok(Num(recommended[FirstRow({i \in 1..Len(metres) : metres[i] > val})]))
    ELSE Raise("RuntimeError")

(* query_diameter_table: column 2 of the first row whose metres equal val. *)
(* The ValueError raised for no match is caught by the function's own      *)
(* "except Exception" and leaves it as RuntimeError.                       *)
query_diameter_table(val, metres, recommended) ==
    IF MatchingRows(val, metres) = {} THEN Raise("RuntimeError")
    ELSE Ok(Num(recommended[FirstRow(MatchingRows(val, metres))]))

(* every diameter of either catalogue, so that each is a hit in one *)
(* catalogue and most are a miss in the other                        *)
CatalogueDiameters ==
    {CasingMetres[i] : i \in 1..Len(CasingMetres)}
        \cup {DrillingMetres[i] : i \in 1..Len(DrillingMetres)}

InitTable ==
    /\ wbd = NewStore(TRUE)
    /\ cpl = FALSE
    /\ cpl_err = "none"
    /\ pc = "idle"
    /\ init_err = "none"
    /\ run = NoRun
    /\ cost = NoCost
    /\ \E val \in CatalogueDiameters, catalogue \in Catalogues :
          lk = [op |-> "none", val |-> val, array |-> Metres(catalogue),
                recommended |-> Recommended(catalogue), out |-> Ok(None)]

LookupDrillBit ==
    /\ lk.op = "none"
    /\ lk' = [lk EXCEPT !.op = "drill_bit",
                        !.out = Ok(calculate_drill_bit_diameter(
                                       lk.val, lk.array, lk.recommended))]
    /\ UNCHANGED <<wbd, cpl, cpl_err, pc, init_err, run, cost>>

QueryDiameterTable ==
    /\ lk.op = "none"
    /\ lk' = [lk EXCEPT !.op = "query",
                        !.out = query_diameter_table(lk.val, lk.array, lk.recommended)]
    /\ UNCHANGED <<wbd, cpl, cpl_err, pc, init_err, run, cost>>

NextTable ==
    \/ LookupDrillBit
    \/ QueryDiameterTable

SpecTable == InitTable /\ [][NextTable]_vars

(* C7: when some candidate is strictly greater than the value,              *)
(* find_next_largest_value returns the least such candidate, and so never   *)
(* a candidate equal to the value.                                          *)
C7_NextLargestIsLeastStrictlyGreater ==
    (lk.op = "next_largest" /\ \E c \in Candidates : c > lk.val) =>
        /\ lk.out.err = "none"
        /\ IsNum(lk.out.v)
        /\ lk.out.v.v \in Candidates
        /\ lk.out.v.v > lk.val
        /\ \A c \in Candidates : c > lk.val => lk.out.v.v <= c

(* the value is itself a candidate and a larger candidate was returned *)
C7_Witness ==
    /\ lk.op = "next_largest"
    /\ lk.val \in Candidates
    /\ lk.out.err = "none"
    /\ lk.out.v.v > lk.val
    /\ \E c \in Candidates : c > lk.out.v.v

StageOrder == <<"screen", "pump", "casing">>

Populated(row) == IsNum(row.top) \/ IsNum(row.bottom) \/ IsNum(row.casing)

PopulatedStages ==
    {i \in 1..Len(CasingStages) : Populated(wbd.casing_stage_table[CasingStages[i]])}

(* C1: after a run that completed, the populated rows of the casing stage  *)
(* table, in stage order, have non-decreasing tops, and every populated    *)
(* row has bottom >= top.                                                  *)
C1_ScheduleDepthsOrdered ==
    (pc = "idle" /\ wbd.calculation_completed = "True") =>
        /\ \A i \in PopulatedStages :
              LET row == wbd.casing_stage_table[CasingStages[i]]
              IN  IsNum(row.top) /\ IsNum(row.bottom) /\ row.bottom.v >= row.top.v
        /\ \A i, j \in PopulatedStages :
              i < j => wbd.casing_stage_table[CasingStages[i]].top.v
                         <= wbd.casing_stage_table[CasingStages[j]].top.v

(* C2: calculation_completed is true only when the three stages of the most *)
(* recent run all returned without an exception; while a run is under way   *)
(* and after a run that failed the flag is false.                           *)
C2_CompletedMeansAllStagesReturned ==
    /\ wbd.calculation_completed = "True" =>
           (pc = "idle" /\ run.stages = StageOrder /\ run.cause = "none"
              /\ run.raised = "none")
    /\ (pc # "idle" \/ run.cause # "none") => wbd.calculation_completed = "False"

(* a run has completed on a store *)
C2_Witness ==
    /\ wbd.calculation_completed = "True"
    /\ run.stages = StageOrder
    /\ IsNum(wbd.casing_stage_table["screen"].bottom)

(* what _initialise_calculation_parameters validates, of the inputs held *)
InputsValidated(w) ==
    /\ validate_aquifer_layer(w.aquifer_layer_table, w.target_aquifer_layer)
    /\ validate_target_aquifer_layer(w.aquifer_layer_table, w.target_aquifer_layer)
    /\ validate_aquifer_layer(w.aquifer_layer_table, w.top_aquifer_layer)
    /\ validate_top_aquifer_layer(w.top_aquifer_layer)
    /\ validate_initial_inputs(w)

(* C3: ready_for_calculation is true only while the inputs the store holds *)
(* are all present and validated.                                          *)
C3_ReadyMeansInputsValidated ==
    wbd.ready_for_calculation => InputsValidated(wbd)

(* C4: a failure inside any stage reaches the caller of calc_pipeline as   *)
(* the one normalised error, the ValueError raised from the cause, and as  *)
(* no other kind.                                                          *)
C4_FailureSurfacesNormalised ==
    (pc = "idle" /\ run.cause # "none") => run.raised = "ValueError"

(* C5: when the pump or the casing stage fails, what the earlier stages of *)
(* that run wrote stays on the store, with the values the run computed,    *)
(* and calculation_completed is false.                                     *)
C5_FailedRunKeepsEarlierOutputs ==
    /\ [](pc \in {"pump", "casing"} =>
             ScreenOutputs(wbd) = ScreenOutputs(screen_pipeline(wbd, FALSE).w))
    /\ [](pc = "casing" => PumpOutputs(wbd) = PumpOutputs(pump_pipeline(wbd).w))
    /\ [][(pc \in {"pump", "casing"} /\ run'.cause # "none") =>
             /\ wbd'.calculation_completed = "False"
             /\ ScreenOutputs(wbd') = ScreenOutputs(wbd)
             /\ (pc = "casing" => PumpOutputs(wbd') = PumpOutputs(wbd))]_vars

(* the casing stage has failed after the screen and the pump stage wrote *)
C5_Witness ==
    /\ pc = "idle"
    /\ run.stages = StageOrder
    /\ run.cause # "none"
    /\ wbd.calculation_completed = "False"
    /\ IsNum(wbd.screen_length)
    /\ IsNum(wbd.pump_inlet_depth)

(* C6: the stages of a run are entered in the order screen, pump, casing;  *)
(* the pump stage starts with the screen stage's outputs written, the      *)
(* casing stage with both stages' outputs written, and no stage is entered *)
(* after one has failed.                                                   *)
C6_StagesInOrder ==
    /\ \E n \in 0..3 : run.stages = SubSeq(StageOrder, 1, n)
    /\ pc = "screen" => run.stages = <<>>
    /\ pc = "pump" =>
          /\ run.stages = <<"screen">>
          /\ run.cause = "none"
          /\ ScreenOutputs(wbd) = ScreenOutputs(screen_pipeline(wbd, FALSE).w)
    /\ pc = "casing" =>
          /\ run.stages = <<"screen", "pump">>
          /\ run.cause = "none"
          /\ PumpOutputs(wbd) = PumpOutputs(pump_pipeline(wbd).w)
    /\ run.cause # "none" => pc = "idle"

(* the screen stage has failed and the run has ended there *)
C6_Witness ==
    /\ pc = "idle"
    /\ run.stages = <<"screen">>
    /\ run.cause # "none"

(* C9: after the screen stage on an initialised store,                     *)
(* 0 < screen_length <= aquifer_thickness and the error band              *)
(* (0.9 SL, min(1.1 SL, thickness)) encloses screen_length.               *)
C9_ScreenLengthWithinAquifer ==
    (pc = "pump") =>
        /\ 0 < wbd.screen_length.v
        /\ wbd.screen_length.v <= wbd.aquifer_thickness.v
        /\ wbd.screen_length_error[1].v <= wbd.screen_length.v
        /\ wbd.screen_length.v <= wbd.screen_length_error[2].v
        /\ wbd.screen_length_error[1].v = (wbd.screen_length.v * 9) \div 10
        /\ wbd.screen_length_error[2].v =
               IntMin((wbd.screen_length.v * 11) \div 10, wbd.aquifer_thickness.v)

(* C10: the stored screen length is min(2 SL_base, thickness) for an       *)
(* injection well and min(SL_base, thickness) for a production well.       *)
C10_DoubledForInjectionOnly ==
    (pc = "pump") =>
        LET base == TheisScreenLength(wbd.required_flow_rate.v,
                                      wbd.hydraulic_conductivity.v,
                                      wbd.bore_lifetime_per_day.v)
        IN  wbd.screen_length.v =
                IntMin(IF wbd.is_production_well THEN base ELSE 2 * base,
                       wbd.aquifer_thickness.v)

(* C11: no stage runs against a store that is not ready: on such a store  *)
(* no pipeline exists, no run is under way and no stage output is         *)
(* written; constructing a pipeline on it fails with RuntimeError.        *)
C11_NoStageOnUnreadyStore ==
    /\ ~wbd.ready_for_calculation =>
           /\ cpl = FALSE
           /\ pc = "idle"
           /\ run = NoRun
           /\ ScreenOutputs(wbd) = ScreenOutputs(NewStore(wbd.is_production_well))
           /\ PumpOutputs(wbd) = PumpOutputs(NewStore(wbd.is_production_well))
           /\ wbd.calculation_completed = "absent"
    /\ (~wbd.ready_for_calculation /\ cpl_err # "none") => cpl_err = "RuntimeError"

(* a step of Initialise: the store is initialised, nothing else moves *)
InitialiseStep ==
    pc = "idle" /\ UNCHANGED <<cpl, cpl_err, pc, run, lk>> /\ cost' = NoCost

TargetIsLast(w) ==
    /\ w.aquifer_layer_table # <<>>
    /\ w.target_aquifer_layer =
           w.aquifer_layer_table[Len(w.aquifer_layer_table)].aquifer_layer

StageOutputs(w) ==
    <<ScreenOutputs(w), PumpOutputs(w), w.casing_stage_table, w.screen_stage_table,
      w.min_total_casing_production_screen_diameter, w.calculation_completed>>

(* C12: initialising a store that is not ready, with the flow rate and the *)
(* lifetime given and the target layer the last of the layer table, raises *)
(* ValueError; ready_for_calculation stays false, depth_to_top_screen and  *)
(* aquifer_thickness are not derived and no stage output is written.       *)
C12_LastLayerTargetRejected ==
    [][(/\ InitialiseStep
        /\ ~wbd.ready_for_calculation
        /\ wbd'.required_flow_rate.k # "none"
        /\ wbd'.bore_lifetime_year.k # "none"
        /\ TargetIsLast(wbd')) =>
           /\ init_err' = "ValueError"
           /\ ~wbd'.ready_for_calculation
           /\ wbd'.depth_to_top_screen = wbd.depth_to_top_screen
           /\ wbd'.aquifer_thickness = wbd.aquifer_thickness
           /\ StageOutputs(wbd') = StageOutputs(wbd)]_vars

(* a new store has been initialised with the last layer as its target *)
C12_Witness ==
    /\ init_err = "ValueError"
    /\ TargetIsLast(wbd)
    /\ wbd.required_flow_rate.k # "none"
    /\ wbd.bore_lifetime_year.k # "none"
    /\ ~wbd.ready_for_calculation
    /\ wbd.aquifer_thickness = None
    /\ wbd.depth_to_top_screen = None

(* a scalar input the store does not hold *)
MissingInputs(w) ==
    {name \in NumericInputs : w[name].k = "none"}
        \cup {name \in {"top_aquifer_layer", "target_aquifer_layer"} : w[name] = "None"}

(* C13: initialising a store that is not ready and is left without one of *)
(* the scalar inputs raises ValueError and leaves ready_for_calculation   *)
(* false.                                                                 *)
C13_MissingInputRejected ==
    [][(/\ InitialiseStep
        /\ ~wbd.ready_for_calculation
        /\ MissingInputs(wbd') # {}) =>
           /\ init_err' = "ValueError"
           /\ ~wbd'.ready_for_calculation]_vars

C15_InjectionScreenDiameter ==
    ~wbd.is_production_well =>
        /\ (run.stages = <<"screen">> /\ run.cause # "none") => run.cause = "ValueError"
        /\ pc = "pump" =>
              /\ IsNum(wbd.screen_length)
              /\ IsNum(wbd.screen_length_error[1])
              /\ IsNum(wbd.open_hole_diameter)
              /\ MatchingRows(wbd.open_hole_diameter.v, DrillingMetres) # {}
              /\ wbd.screen_diameter =
                     Num(DrillingRecommendedScreen[
                             FirstRow(MatchingRows(wbd.open_hole_diameter.v,
                                                   DrillingMetres))])

SkippedStages(w) ==
    {st \in DOMAIN w.casing_stage_table :
        IsNaN(w.casing_stage_table[st].top) /\ IsNaN(w.casing_stage_table[st].bottom)}

WithoutStage(w, stage) ==
    [w EXCEPT !.casing_stage_table =
        [st \in DOMAIN w.casing_stage_table \ {stage} |-> w.casing_stage_table[st]]]

C17_SkippedStagesContributeNothing ==
    (cost.done /\ wbd.calculation_completed = "True") =>
        /\ cost.err = "none"
        /\ \A st \in SkippedStages(wbd) :
              /\ cost.materials_params.section_lengths[st] = Num(0)
              /\ \E without \in {materials_params(WithoutStage(wbd, st)).materials_params} :
                    /\ cost.materials_params.total_excavation_volume.k = "num"
                    /\ cost.materials_params.total_excavation_volume
                           = without.total_excavation_volume
                    /\ cost.materials_params.total_cement_volume
                           = without.total_cement_volume
                    /\ cost.materials_params.total_gravel_volume
                           = without.total_gravel_volume

C17_Witness ==
    /\ cost.done
    /\ cost.err = "none"
    /\ wbd.calculation_completed = "True"
    /\ "superficial_casing" \in SkippedStages(wbd)
    /\ cost.materials_params.section_lengths["superficial_casing"] = Num(0)
    /\ cost.materials_params.total_excavation_volume.v > 0
    /\ cost.materials_params.total_cement_volume.v > 0

(* the attributes of the store that are inputs: what the caller gave, what *)
(* initialisation derived from it, and the readiness flag                  *)
InputFields ==
    NumericInputs \cup
    {"is_production_well", "top_aquifer_layer", "target_aquifer_layer",
     "aquifer_layer_table", "required_flow_rate_per_litre_sec",
     "required_flow_rate_per_m3_sec", "bore_lifetime_per_day", "depth_to_top_screen",
     "aquifer_thickness", "depth_to_aquifer_base", "ready_for_calculation"}

Inputs(w) == [name \in InputFields |-> w[name]]

(* a step of a run: its start or one of its stages *)
RunStep == pc # "idle" \/ pc' # "idle"

MaxFlowStep == 160

PumpThresholds == {0, 5000, 10000, 50000, 70000}

PumpFlows ==
    {500 * i : i \in (0 - 4)..MaxFlowStep}
        \cup {t - 1 : t \in PumpThresholds} \cup {t + 1 : t \in PumpThresholds}

InitPump ==
    /\ wbd = NewStore(TRUE)
    /\ cpl = FALSE
    /\ cpl_err = "none"
    /\ pc = "idle"
    /\ init_err = "none"
    /\ run = NoRun
    /\ cost = NoCost
    /\ \E val \in PumpFlows :
          lk = [op |-> "none", val |-> val, array |-> <<>>, out |-> Ok(None)]

AssignPumpDiameter ==
    /\ lk.op = "none"
    /\ lk' = [lk EXCEPT !.op = "assign_pump_diameter",
                        !.out = assign_pump_diameter(lk.val)]
    /\ UNCHANGED <<wbd, cpl, cpl_err, pc, init_err, run, cost>>

NextPump == AssignPumpDiameter

SpecPump == InitPump /\ [][NextPump]_vars

(* One run on a freshly initialised store, over a wider range of flow rates *)
(* (m3/day) than the pipeline specification above affords.                  *)
WideFlowRates == {500, 1000, 2000, 3000, 4320, 6000, 8000, 12000}

(* the stores GeoDrillCalc hands to calc_pipeline: initialised without an *)
(* error, the pipeline constructed, calculation_completed just cleared    *)
InitRun ==
    /\ \E is_production_well \in BOOLEAN, q \in WideFlowRates, table \in LayerTables,
          target \in TargetLayers, top \in TopLayers :
          \E r \in {initialise_calculation_parameters(
                        NewStore(is_production_well),
                        Kwargs(q, table, target, top, "nothing"))} :
              /\ r.err = "none"
              /\ wbd = [r.w EXCEPT !.calculation_completed = "False"]
    /\ cpl = TRUE
    /\ cpl_err = "none"
    /\ pc = "screen"
    /\ init_err = "none"
    /\ run = NoRun
    /\ cost = NoCost
    /\ lk = NoLookup

NextRun ==
    \/ ScreenStage
    \/ PumpStage
    \/ CasingStage

SpecRun == InitRun /\ [][NextRun]_vars

(* The casing stage on its own, as a function of the store it finds: the  *)
(* inputs of an initialisation without error, the outputs the screen and  *)
(* pump stages leave drawn from small sets, and the casing schedule either *)
(* fresh or, on a production store, left by an earlier completed run.     *)

(* the store after a completed run: the reference inputs of tests/test_calc.py *)
EarlierRun ==
    LET cased(pumped) == casing_pipeline(pumped.w).w
        pumped(screened) == cased(pump_pipeline(screened.w))
        screened(initialised) == pumped(screen_pipeline(initialised.w, TRUE))
    IN  screened(initialise_calculation_parameters(
                     NewStore(TRUE),
                     Kwargs(4320, Array(TableA), "109lmta", "100qa", "nothing")))

(* screen diameters the screen stage can leave: catalogue sizes, or NaN *)
(* when no candidate was feasible                                       *)
ScreenDiameters ==
    {Num(CasingMetres[1]), Num(CasingMetres[5]), Num(CasingMetres[10]),
     Num(CasingMetres[Len(CasingMetres)]), NaN}

(* the stage outputs on a store whose screen and pump stages have returned *)
WithStageOutputs(w, screen_diameter, housing_flow_rate, schedule) ==
    [w EXCEPT
        !.screen_length =
            Num(calculate_minimum_screen_length(
                    w.required_flow_rate.v, w.hydraulic_conductivity.v,
                    w.bore_lifetime_per_day.v, w.aquifer_thickness.v,
                    w.is_production_well).screen_length),
        !.screen_diameter = screen_diameter,
        !.min_total_casing_production_screen_diameter =
            IF w.is_production_well THEN screen_diameter ELSE @,
        !.pump_inlet_depth =
            Num(calculate_pump_inlet_depth(
                    w.groundwater_depth.v, w.allowable_drawdown.v, w.safety_margin.v,
                    w.long_term_decline_rate.v, w.bore_lifetime_year.v)),
        !.minimum_pump_housing_diameter =
            Num(calculate_minimum_pump_housing_diameter(
                    FlowPerSecond(housing_flow_rate),
                    assign_pump_diameter(FlowPerSecond(housing_flow_rate)).v.v)),
        !.casing_stage_table = schedule,
        !.calculation_completed = "False"]

InitCasing ==
    /\ \E is_production_well \in BOOLEAN, table \in LayerTables,
          target \in TargetLayers, top \in TopLayers,
          screen_diameter \in ScreenDiameters, housing_flow_rate \in WideFlowRates,
          schedule \in {initialise_casing_stage_table, EarlierRun.casing_stage_table} :
          \E r \in {initialise_calculation_parameters(
                        NewStore(is_production_well),
                        Kwargs(4320, table, target, top, "nothing"))} :
              /\ r.err = "none"
              /\ is_production_well \/ schedule = initialise_casing_stage_table
              /\ wbd = WithStageOutputs(r.w, screen_diameter, housing_flow_rate, schedule)
    /\ cpl = TRUE
    /\ cpl_err = "none"
    /\ pc = "casing"
    /\ init_err = "none"
    /\ run = [stages |-> <<"screen", "pump">>, cause |-> "none", raised |-> "none"]
    /\ cost = NoCost
    /\ lk = NoLookup

NextCasing == CasingStage

SpecCasing == InitCasing /\ [][NextCasing]_vars

(* the friction above which no screen diameter is feasible: 20 m of head *)
FrictionLimit == 20000

(* C19: in the candidate table the screen stage has just stored, row by    *)
(* row over the casing catalogue: a friction loss above 20 m leaves the     *)
(* minimum screen diameter, the selected diameter and the total-casing      *)
(* metric NaN; otherwise the selected diameter is the least catalogue size  *)
(* strictly above the computed minimum (NaN where the minimum is NaN); and  *)
(* the metric is a number, the one of the formula, exactly when the         *)
(* selected diameter is a number and the row's casing is wider than it.     *)
C19_CandidateRows ==
    pc = "pump" =>
        /\ Len(wbd.screen_stage_table) = Len(CasingMetres)
        /\ \A i \in 1..Len(wbd.screen_stage_table) :
              \E row \in {wbd.screen_stage_table[i]} :
                 /\ row.production_casing_diameters = CasingMetres[i]
                 /\ row.production_casing_frictions > FrictionLimit =>
                       /\ IsNaN(row.production_minimum_screen_diameters)
                       /\ IsNaN(row.production_screen_diameters)
                       /\ IsNaN(row.total_casing)
                 /\ row.production_casing_frictions <= FrictionLimit =>
                       IF IsNum(row.production_minimum_screen_diameters)
                       THEN /\ IsNum(row.production_screen_diameters)
                            /\ \E k \in 1..Len(CasingMetres) :
                                  CasingMetres[k] = row.production_screen_diameters.v
                            /\ row.production_screen_diameters.v
                                   > row.production_minimum_screen_diameters.v
                            /\ \A k \in 1..Len(CasingMetres) :
                                  CasingMetres[k] > row.production_minimum_screen_diameters.v
                                      => row.production_screen_diameters.v <= CasingMetres[k]
                       ELSE IsNaN(row.production_screen_diameters)
                 /\ IsNum(row.total_casing) <=>
                       /\ IsNum(row.production_screen_diameters)
                       /\ row.production_casing_diameters > row.production_screen_diameters.v
                 /\ IsNum(row.total_casing) =>
                       row.total_casing =
                           calculate_total_casing(row.production_casing_diameters,
                                                  row.production_screen_diameters,
                                                  wbd.depth_to_top_screen.v - 10000,
                                                  wbd.screen_length.v)

C19_Witness ==
    /\ pc = "pump"
    /\ \E i \in 1..Len(wbd.screen_stage_table) :
          wbd.screen_stage_table[i].production_casing_frictions > FrictionLimit
    /\ \E i \in 1..Len(wbd.screen_stage_table) :
          IsNum(wbd.screen_stage_table[i].total_casing)
    /\ \E i \in 1..Len(wbd.screen_stage_table) :
          /\ IsNum(wbd.screen_stage_table[i].production_screen_diameters)
          /\ IsNaN(wbd.screen_stage_table[i].total_casing)

(* the rows of the stored candidate table whose total-casing metric is a number *)
DefinedRows(w) ==
    {i \in 1..Len(w.screen_stage_table) : IsNum(w.screen_stage_table[i].total_casing)}

(* C20: when the candidate table the screen stage has just stored has a    *)
(* row with a defined total-casing metric, the stored                      *)
(* min_total_casing_production_screen_diameter is the selected diameter of *)
(* a row whose metric is defined and least among the defined ones, and the *)
(* stored screen_diameter is the larger of it and the smallest casing      *)
(* catalogue diameter.                                                     *)
C20_LeastMetricRowChosen ==
    (pc = "pump" /\ wbd.is_production_well /\ DefinedRows(wbd) # {}) =>
        /\ \E i \in DefinedRows(wbd) :
              /\ \A j \in DefinedRows(wbd) :
                    wbd.screen_stage_table[i].total_casing.v
                        <= wbd.screen_stage_table[j].total_casing.v
              /\ wbd.min_total_casing_production_screen_diameter
                     = wbd.screen_stage_table[i].production_screen_diameters
        /\ IsNum(wbd.min_total_casing_production_screen_diameter)
        /\ IsNum(wbd.screen_diameter)
        /\ wbd.screen_diameter.v >= wbd.min_total_casing_production_screen_diameter.v
        /\ wbd.screen_diameter.v >= CasingMetres[1]
        /\ wbd.screen_diameter.v \in
               {wbd.min_total_casing_production_screen_diameter.v, CasingMetres[1]}

C20_Witness ==
    /\ pc = "pump"
    /\ wbd.is_production_well
    /\ Cardinality(DefinedRows(wbd)) > 1
    /\ Cardinality(DefinedRows(wbd)) < Len(wbd.screen_stage_table)
    /\ ~IsNum(wbd.screen_stage_table[1].total_casing)
    /\ wbd.screen_diameter = wbd.min_total_casing_production_screen_diameter
    /\ IsNum(wbd.screen_diameter)

(* C21: a production run whose candidate table has no defined total-casing *)
(* metric fails in the screen stage: no NaN screen_diameter or             *)
(* min_total_casing_production_screen_diameter is ever on the store, and   *)
(* the pump and casing stages are never entered after such a table.        *)
C21_InfeasibleScreenFails ==
    /\ ~IsNaN(wbd.screen_diameter)
    /\ ~IsNaN(wbd.min_total_casing_production_screen_diameter)
    /\ (pc \in {"pump", "casing"} /\ wbd.is_production_well) => DefinedRows(wbd) # {}

(* C22: a screen stage entered with a negative aquifer_thickness fails with *)
(* ValueError: the run ends there, screen_length is not written and        *)
(* calculation_completed stays false.                                      *)
C22_NegativeThicknessRejected ==
    [][(pc = "screen" /\ wbd.aquifer_thickness.v < 0) =>
          /\ pc' = "idle"
          /\ run'.raised = "ValueError"
          /\ wbd'.screen_length = wbd.screen_length
          /\ wbd'.calculation_completed = "False"]_vars

(* the nominal pump size in inches of a diameter in micrometres *)
Inches(diameter) == diameter \div 25400

IsNextLargestCasing(size, diameter) ==
    /\ \E k \in 1..Len(CasingMetres) : CasingMetres[k] = size
    /\ size > diameter
    /\ \A k \in 1..Len(CasingMetres) : CasingMetres[k] > diameter => size <= CasingMetres[k]

CasingReturned == pc = "casing" /\ run'.cause = "none"

C28_CasingStageAtomic ==
    [][(pc = "casing" /\ run'.cause # "none") =>
          wbd'.casing_stage_table = wbd.casing_stage_table]_vars

(* a casing stage has failed at the intermediate casing, after the   *)
(* pre-collar row was written to its copy, and the store's schedule *)
(* is still the empty one                                            *)
C28_Witness ==
    /\ pc = "idle"
    /\ run.stages = <<"screen", "pump", "casing">>
    /\ run.cause = "ValueError"
    /\ wbd.is_production_well
    /\ IsNum(wbd.screen_diameter)
    /\ wbd.casing_stage_table = initialise_casing_stage_table

(* the schedule the casing stage leaves on a store that holds the same *)
(* inputs and stage outputs but has never been run before              *)
FreshSchedule(w) ==
    casing_pipeline([w EXCEPT !.casing_stage_table = initialise_casing_stage_table]).w.casing_stage_table

NullRow(row) ==
    row.top = NaN /\ row.bottom = NaN /\ row.casing = NaN /\ row.drill_bit = NaN

CatalogueDiameter(casing) ==
    /\ IsNum(casing)
    /\ \E i \in 1..Len(CasingMetres) : casing.v = CasingMetres[i]
    /\ casing.v <= calculate_pre_collar_casing_diameter

Telescoped(w, schedule) ==
    /\ Gt(schedule.intermediate_casing.casing, schedule.screen.casing)
    /\ Populated(schedule.pump_chamber_casing) =>
              /\ ~Gt(schedule.intermediate_casing.casing, schedule.pump_chamber_casing.casing)
              /\ IsNum(schedule.pump_chamber_casing.casing)
    /\ schedule.screen_riser.casing = schedule.screen.casing
    /\ schedule.screen.casing = w.screen_diameter
    /\ \A stage \in DOMAIN schedule :
           IsNum(schedule[stage].casing) => CatalogueDiameter(schedule[stage].casing)

====
